---- MODULE Spec2Model ----
(***************************************************************************)
(* Concurrent block-range streaming and aggregation engine of              *)
(* eos-blockchain-data.                                                    *)
(*                                                                         *)
(*   src/main.py                               run(), its nested           *)
(*                                             stream_blocks(), the CLI    *)
(*   src/pyfirehose/__main__.py                main()                      *)
(*   src/pyfirehose/block_extractors/common.py stream_blocks()             *)
(*                                                                         *)
(* Everything runs on one asyncio event loop: a coroutine runs without     *)
(* interruption from one await to the next, so each action below is the    *)
(* code between two suspension points.                                     *)
(***************************************************************************)
EXTENDS Integers, Sequences, FiniteSets, TLC

VARIABLES
    entry,                  \* how the program was started
    impl,                   \* which stream_blocks the workers run
    period_start,           \* run() argument / CLI block_start
    period_end,             \* run() argument / CLI block_end
    max_tasks_arg,          \* run() argument max_tasks as passed by the caller
    block_processor,        \* the block processor handed to the workers
    console_handler,        \* whether the module global console_handler exists
    rpc,                    \* position of the main coroutine
    max_tasks,              \* run(): local max_tasks after clamping (main.py:125)
    split,                  \* run(): local split (main.py:126)
    channel,                \* the gRPC secure channel: none / open / closed
    token_requested,        \* whether the authentication endpoint was queried
    tasks,                  \* run(): the list tasks, one record per worker
    t_idx,                  \* run(): index of the task the loop at main.py:146 awaits
    data,                   \* run(): local data (main.py:145-147)
    out_file,               \* the .jsonl file: written flag and its lines
    run_exc,                \* exception that left the main coroutine
    main_ret,               \* value returned by pyfirehose main(), NoCode if none
    done_order,             \* event loop: the tasks in the order they finished
    exit_code,              \* process exit status, NoCode while running
    exit_cause,             \* what ended the process, "none" while running
    processor_load,         \* CLI: the processor import startup has to do
    stub_config,            \* StubConfig.REQUEST_PARAMETERS
    kwargs,                 \* keyword arguments of a stream_blocks call
    request,                \* the request parameters passed to stub.Blocks
    accounts,               \* run() argument accounts
    custom_include_expr,    \* run() argument custom_include_expr
    custom_exclude_expr,    \* run() argument custom_exclude_expr
    requests                \* run(): the BlocksRequestV2 of each worker

vars == << entry, impl, period_start, period_end, max_tasks_arg, block_processor,
           console_handler, rpc, max_tasks, split, channel, token_requested,
           tasks, t_idx, data, out_file, run_exc, main_ret, done_order,
           exit_code, exit_cause, processor_load, stub_config, kwargs, request,
           accounts, custom_include_expr, custom_exclude_expr, requests >>

----------------------------------------------------------------------------
(* Bounds of the model *)

\* block numbers range over 0..MaxBlock
MaxBlock == 4
\* period_start ranges over 0..MaxStart
MaxStart == 1
\* max_tasks ranges over -MaxNegTasks..MaxTasksArg
MaxTasksArg == 3
MaxNegTasks == 1

Blocks == 0..MaxBlock
TaskArgs == (0 - MaxNegTasks)..MaxTasksArg

Min(a, b) == IF a < b THEN a ELSE b
Max(a, b) == IF a < b THEN b ELSE a

----------------------------------------------------------------------------
(* Values *)

NoCode == 0 - 1
NoBlock == 0 - 1

\* An exception value; start/end/block are meaningful for BlockStreamException only.
Exc(type, s, e, b) == [type |-> type, start |-> s, end |-> e, block |-> b]
NoExc == Exc("none", NoBlock, NoBlock, NoBlock)
PlainExc(type) == Exc(type, NoBlock, NoBlock, NoBlock)

\* The n-th record a block processor yields for block b.
Record(b, n) == [block |-> b, n |-> n]
\* A raw block, appended as-is when no block processor is given.
RawBlock(b) == [block |-> b, n |-> 0]

NoFile == [written |-> FALSE, lines |-> << >>]
WrittenFile(lines) == [written |-> TRUE, lines |-> lines]

----------------------------------------------------------------------------
(* Block processors: generator functions block -> records.  The engine    *)
(* treats them as opaque; these are the shapes the processors can take.   *)

\* the block on which the "faulty" processor raises after one yield
FaultyBlock == 2

Matches(b) == b % 2 = 0

BlockProcessors == {"one", "matching", "two", "faulty"}

\* The records yielded by the generator and whether it then raised.
ProcessorOutput(p, b) ==
    CASE p = "one"      -> [records |-> << Record(b, 1) >>, raised |-> FALSE]
      [] p = "matching" -> [records |-> IF Matches(b) THEN << Record(b, 1) >> ELSE << >>,
                            raised |-> FALSE]
      [] p = "two"      -> [records |-> << Record(b, 1), Record(b, 2) >>, raised |-> FALSE]
      [] p = "faulty"   -> [records |-> << Record(b, 1) >>, raised |-> b = FaultyBlock]
      [] p = "none"     -> [records |-> << RawBlock(b) >>, raised |-> FALSE]

----------------------------------------------------------------------------
(* Range splitter, main.py:124-143 *)

\* Python's // : floor division for either sign of the divisor (b # 0)
FloorDiv(a, b) == IF b > 0 THEN a \div b ELSE (0 - a) \div (0 - b)

\* ClampTasks without the clamp: more tasks than blocks are kept.
ClampTasks_NoClamp(block_diff, mt) == mt

\* main.py:125
ClampTasks(block_diff, mt) == IF block_diff < mt THEN block_diff ELSE mt

\* SubRangeStart beginning one block early: neighbouring sub-ranges share a block.
SubRangeStart_Overlap(i, ps, sp) == ps + i * sp - (IF i > 0 THEN 1 ELSE 0)

\* main.py:139, i is the 0-based loop index
SubRangeStart(i, ps, sp) == ps + i * sp

\* SubRangeEnd without the special case of the last task: the remainder of the
\* division is given to nobody.
SubRangeEnd_NoRemainder(i, ps, pe, sp, n) == ps + (i + 1) * sp

\* main.py:140
SubRangeEnd(i, ps, pe, sp, n) == IF i < n - 1 THEN ps + (i + 1) * sp ELSE pe

\* A freshly created worker task: locals of stream_blocks before the first block,
\* the blocks the server has sent on its call (received) and the blocks handed
\* to the block processor (processed).
NewTask(s, e) ==
    [start |-> s, end |-> e, current_block_number |-> s, data |-> << >>,
     state |-> "streaming", received |-> << >>, processed |-> << >>, exc |-> NoExc]

\* main.py:135-143, range(n) is empty for n <= 0
SpawnTasks(ps, pe, sp, n) ==
    IF n <= 0 THEN << >>
    ELSE [k \in 1..n |->
            NewTask(SubRangeStart(k - 1, ps, sp), SubRangeEnd(k - 1, ps, pe, sp, n))]

----------------------------------------------------------------------------
(* Stream worker: main.py:82-100 (nested) and common.py:93-145 (common)   *)

\* the server may leave out up to MaxSkip block numbers between two items
MaxSkip == 1

Last(s) == s[Len(s)]

\* Block numbers the server may send next on the call of worker w: increasing,
\* inside the requested range [start_block_num, stop_block_num).
NextBlocks(w) ==
    LET lo == IF w.received = << >> THEN w.start ELSE Last(w.received) + 1
    IN  { b \in Blocks : lo <= b /\ b <= lo + MaxSkip /\ b < w.end }

\* OnBlock assigning the records of the block instead of appending them.
OnBlock_Overwrite(im, p, w, b) ==
    LET out == ProcessorOutput(p, b)
    IN  [w EXCEPT
            !.received = Append(@, b),
            !.processed = IF p = "none" THEN @ ELSE Append(@, b),
            !.current_block_number = IF im = "common" THEN @ + 1 ELSE @,
            !.data = out.records,
            !.state = IF out.raised THEN "raised" ELSE @,
            !.exc = IF out.raised THEN PlainExc("ProcessorError") ELSE @]

\* OnBlock going back to the stream after the first record of the block.
OnBlock_PartialDrain(im, p, w, b) ==
    LET out == ProcessorOutput(p, b)
    IN  [w EXCEPT
            !.received = Append(@, b),
            !.processed = IF p = "none" THEN @ ELSE Append(@, b),
            !.current_block_number = IF im = "common" THEN @ + 1 ELSE @,
            !.data = IF out.records = << >> THEN @ ELSE Append(@, Head(out.records)),
            !.state = IF out.raised THEN "raised" ELSE @,
            !.exc = IF out.raised THEN PlainExc("ProcessorError") ELSE @]

\* OnBlock with the except clause of common.py:135 catching every exception.
OnBlock_WrapProcessorError(im, p, w, b) ==
    LET out == ProcessorOutput(p, b)
    IN  [w EXCEPT
            !.received = Append(@, b),
            !.processed = IF p = "none" THEN @ ELSE Append(@, b),
            !.current_block_number = IF im = "common" THEN @ + 1 ELSE @,
            !.data = @ \o out.records,
            !.state = IF out.raised THEN "raised" ELSE @,
            !.exc = IF out.raised
                    THEN Exc("BlockStreamException", w.start, w.end,
                             w.current_block_number + 1)
                    ELSE @]

\* One iteration of the async-for body on receiving block b.
\* nested: main.py:92-97.  common: common.py:115-124 with a processor,
\* common.py:127-134 without.  The generator is drained before the next await;
\* an exception it raises is not caught (common.py:135 catches AioRpcError only).
OnBlock(im, p, w, b) ==
    LET out == ProcessorOutput(p, b)
    IN  [w EXCEPT
            !.received = Append(@, b),
            !.processed = IF p = "none" THEN @ ELSE Append(@, b),
            !.current_block_number = IF im = "common" THEN @ + 1 ELSE @,
            !.data = @ \o out.records,
            !.state = IF out.raised THEN "raised" ELSE @,
            !.exc = IF out.raised THEN PlainExc("ProcessorError") ELSE @]

\* OnRpcError reporting the last block received instead of the block awaited.
OnRpcError_LastReceived(im, w) ==
    [w EXCEPT
        !.state = "raised",
        !.exc = IF im = "common"
                THEN Exc("BlockStreamException", w.start, w.end,
                         w.current_block_number - 1)
                ELSE PlainExc("AioRpcError")]

\* The stream raises grpc.aio.AioRpcError.
\* nested: nothing catches it (main.py:85).  common: common.py:135-142.
OnRpcError(im, w) ==
    [w EXCEPT
        !.state = "raised",
        !.exc = IF im = "common"
                THEN Exc("BlockStreamException", w.start, w.end, w.current_block_number)
                ELSE PlainExc("AioRpcError")]

\* The stream ends: main.py:99-100, common.py:144-145.
OnEndOfStream(w) == [w EXCEPT !.state = "returned"]

\* What awaiting a finished task gives: its return value, if it returned.
Returned(w) == IF w.state = "returned" THEN w.data ELSE << >>

Finished(w) == w.state \in {"returned", "raised", "cancelled"}

\* Task i, now in state w, joins the finished tasks when it has just finished.
FinishOrder(order, i, w) == IF Finished(w) THEN Append(order, i) ELSE order

\* The keys of a request that the model follows.
ParameterKeys == {"start_block_num", "stop_block_num", "include_filter_expr"}

\* a key a dict does not hold
Absent == 0 - 1

\* values a stub config / a keyword argument gives to a key, told apart from
\* each other and from every block number
ConfigValue == MaxBlock + 1
KwargValue == MaxBlock + 2

NoParameters == [k \in ParameterKeys |-> Absent]

\* {**a, **b}: the entries of b replace those of a.
Unpack(a, b) == [k \in ParameterKeys |-> IF b[k] # Absent THEN b[k] ELSE a[k]]

\* common.py:98-103
RequestParameters(start, end, config, kw) ==
    Unpack(Unpack([NoParameters EXCEPT !["start_block_num"] = start,
                                       !["stop_block_num"] = end],
                  config),
           kw)

\* ReceiveBlock with one list of records shared by all the calls.
ReceiveBlock_Shared(i) ==
    /\ i \in DOMAIN tasks
    /\ channel = "open"
    /\ tasks[i].state = "streaming"
    /\ \E b \in NextBlocks(tasks[i]) :
          LET w == OnBlock(impl, block_processor, tasks[i], b)
          IN  tasks' = [j \in DOMAIN tasks |->
                          IF j = i THEN w
                          ELSE [tasks[j] EXCEPT
                                  !.data = @ \o ProcessorOutput(block_processor, b).records]]
    /\ done_order' = FinishOrder(done_order, i, tasks'[i])
    /\ UNCHANGED << accounts, custom_include_expr, custom_exclude_expr, requests,
                    stub_config, kwargs, request, processor_load, exit_cause,
                    entry, impl, period_start, period_end, max_tasks_arg,
                    block_processor, console_handler, rpc, max_tasks, split, channel,
                    token_requested, t_idx, data, out_file, run_exc, main_ret, exit_code >>

\* common.py:113-134, main.py:85-97: a response arrives on the stream of task i.
ReceiveBlock(i) ==
    /\ i \in DOMAIN tasks
    /\ channel = "open"
    /\ tasks[i].state = "streaming"
    /\ \E b \in NextBlocks(tasks[i]) :
          tasks' = [tasks EXCEPT ![i] = OnBlock(impl, block_processor, tasks[i], b)]
    /\ done_order' = FinishOrder(done_order, i, tasks'[i])
    /\ UNCHANGED << accounts, custom_include_expr, custom_exclude_expr, requests,
                    stub_config, kwargs, request, processor_load, exit_cause,
                    entry, impl, period_start, period_end, max_tasks_arg,
                    block_processor, console_handler, rpc, max_tasks, split, channel,
                    token_requested, t_idx, data, out_file, run_exc, main_ret, exit_code >>

EndOfStream(i) ==
    /\ i \in DOMAIN tasks
    /\ channel = "open"
    /\ tasks[i].state = "streaming"
    /\ tasks' = [tasks EXCEPT ![i] = OnEndOfStream(tasks[i])]
    /\ done_order' = FinishOrder(done_order, i, tasks'[i])
    /\ UNCHANGED << accounts, custom_include_expr, custom_exclude_expr, requests,
                    stub_config, kwargs, request, processor_load, exit_cause,
                    entry, impl, period_start, period_end, max_tasks_arg,
                    block_processor, console_handler, rpc, max_tasks, split, channel,
                    token_requested, t_idx, data, out_file, run_exc, main_ret, exit_code >>

RpcError(i) ==
    /\ i \in DOMAIN tasks
    /\ channel = "open"
    /\ tasks[i].state = "streaming"
    /\ tasks' = [tasks EXCEPT ![i] = OnRpcError(impl, tasks[i])]
    /\ done_order' = FinishOrder(done_order, i, tasks'[i])
    /\ UNCHANGED << accounts, custom_include_expr, custom_exclude_expr, requests,
                    stub_config, kwargs, request, processor_load, exit_cause,
                    entry, impl, period_start, period_end, max_tasks_arg,
                    block_processor, console_handler, rpc, max_tasks, split, channel,
                    token_requested, t_idx, data, out_file, run_exc, main_ret, exit_code >>

\* The channel was closed under a pending call (exit of the async-with scope,
\* main.py:131) and asyncio.run cancels what is left (main.py:227): the task
\* ends with CancelledError, its locals are dropped.
Cancelled(i) ==
    /\ i \in DOMAIN tasks
    /\ channel = "closed"
    /\ tasks[i].state = "streaming"
    /\ tasks' = [tasks EXCEPT ![i].state = "cancelled",
                              ![i].exc = PlainExc("CancelledError")]
    /\ done_order' = FinishOrder(done_order, i, tasks'[i])
    /\ UNCHANGED << accounts, custom_include_expr, custom_exclude_expr, requests,
                    stub_config, kwargs, request, processor_load, exit_cause,
                    entry, impl, period_start, period_end, max_tasks_arg,
                    block_processor, console_handler, rpc, max_tasks, split, channel,
                    token_requested, t_idx, data, out_file, run_exc, main_ret, exit_code >>

----------------------------------------------------------------------------
(* run(), main.py:102-156 *)

\* Exit status seen by whoever started the program; a direct caller of run()
\* gets the exception or the return instead.
ExitWith(code) == IF entry = "direct" THEN NoCode ELSE code

\* main.py:124-129: the locals max_tasks and split, and the exception raised
\* before the channel is opened, if any.
SplitRange(ps, pe, mt, handler) ==
    LET block_diff == pe - ps
        n == ClampTasks(block_diff, mt)
    IN  IF n = 0
        THEN [max_tasks |-> n, split |-> 0, exc |-> PlainExc("ZeroDivisionError")]
        ELSE [max_tasks |-> n, split |-> FloorDiv(block_diff, n),
              exc |-> IF handler THEN NoExc ELSE PlainExc("NameError")]

\* A filter expression argument: None, or a string.
None == [given |-> FALSE, text |-> ""]
Str(t) == [given |-> TRUE, text |-> t]

\* Python's truth value of an optional string: None and '' are false.
Truthy(x) == x.given /\ x.text # ""

\* main.py:89: f'receiver in {accounts} && action == "transfer"'
DefaultInclude(acc) == [text |-> "receiver in {accounts} && action == \"transfer\"",
                        accounts |-> acc]

\* main.py:90
DefaultExclude == [text |-> "action == \"*\"", accounts |-> {}]

\* a string given by the caller, sent as it is
Custom(x) == [text |-> x.text, accounts |-> {}]

\* main.py:85-91: the request of the worker of [start, end)
BlocksRequest(start, end, acc, include, exclude) ==
    [start_block_num |-> start,
     stop_block_num |-> end,
     include_filter_expr |-> IF Truthy(include) THEN Custom(include) ELSE DefaultInclude(acc),
     exclude_filter_expr |-> IF Truthy(exclude) THEN Custom(exclude) ELSE DefaultExclude]

\* main.py:102-143, up to the first await of a task.
RunStart ==
    /\ rpc = "run"
    /\ token_requested' = TRUE
    /\ \E status_ok \in BOOLEAN :
          IF ~status_ok
          THEN /\ rpc' = "exited"
               /\ run_exc' = PlainExc("SystemExit")
               /\ exit_code' = 1
               /\ exit_cause' = "auth"
               /\ UNCHANGED << max_tasks, split, channel, tasks, t_idx, data, requests >>
          ELSE LET s == SplitRange(period_start, period_end, max_tasks_arg, console_handler)
               IN  /\ max_tasks' = s.max_tasks
                   /\ split' = s.split
                   /\ IF s.exc # NoExc
                      THEN /\ rpc' = "raised"
                           /\ run_exc' = s.exc
                           /\ exit_code' = ExitWith(1)
                           /\ exit_cause' = "error"
                           /\ UNCHANGED << channel, tasks, t_idx, data, requests >>
                      ELSE /\ rpc' = "awaiting"
                           /\ channel' = "open"
                           /\ tasks' = SpawnTasks(period_start, period_end, s.split, s.max_tasks)
                           /\ requests' = [k \in DOMAIN tasks' |->
                                              BlocksRequest(tasks'[k].start, tasks'[k].end,
                                                            accounts, custom_include_expr,
                                                            custom_exclude_expr)]
                           /\ t_idx' = 1
                           /\ data' = << >>
                           /\ UNCHANGED << run_exc, exit_code, exit_cause >>
    /\ UNCHANGED << accounts, custom_include_expr, custom_exclude_expr,
                    stub_config, kwargs, request, processor_load,
                    entry, impl, period_start, period_end, max_tasks_arg,
                    block_processor, console_handler, out_file, main_ret, done_order >>

\* Collect that does not wait: a task still streaming is merged with what it
\* has accumulated so far.
RECURSIVE Collect_NoWait(_, _, _)
Collect_NoWait(ts, n, d) ==
    IF n > Len(ts) THEN [idx |-> n, data |-> d, failed |-> FALSE]
    ELSE IF ts[n].state \in {"returned", "streaming"}
         THEN Collect_NoWait(ts, n + 1, d \o ts[n].data)
    ELSE [idx |-> n, data |-> d, failed |-> TRUE]

\* Collect that puts each result in front of what was merged before.
RECURSIVE Collect_Prepend(_, _, _)
Collect_Prepend(ts, n, d) ==
    IF n > Len(ts) THEN [idx |-> n, data |-> d, failed |-> FALSE]
    ELSE IF ts[n].state = "returned" THEN Collect_Prepend(ts, n + 1, Returned(ts[n]) \o d)
    ELSE [idx |-> n, data |-> d, failed |-> ts[n].state # "streaming"]

\* Collect that keeps partial results: a task that raised is skipped.
RECURSIVE Collect_SkipFailed(_, _, _)
Collect_SkipFailed(ts, n, d) ==
    IF n > Len(ts) THEN [idx |-> n, data |-> d, failed |-> FALSE]
    ELSE IF ts[n].state \in {"returned", "raised"}
         THEN Collect_SkipFailed(ts, n + 1, d \o Returned(ts[n]))
    ELSE [idx |-> n, data |-> d, failed |-> FALSE]

\* main.py:146-147: from task n on, with d merged so far, merge every task that
\* has returned until one is still running, one has raised, or none is left
\* (awaiting a finished task does not suspend).
RECURSIVE Collect(_, _, _)
Collect(ts, n, d) ==
    IF n > Len(ts) THEN [idx |-> n, data |-> d, failed |-> FALSE]
    ELSE IF ts[n].state = "returned" THEN Collect(ts, n + 1, d \o Returned(ts[n]))
    ELSE [idx |-> n, data |-> d, failed |-> ts[n].state # "streaming"]

\* Awaited that takes the results out of the tasks it has merged.
Awaited_Consume(ts, n) ==
    [j \in DOMAIN ts |-> IF j < n THEN [ts[j] EXCEPT !.data = << >>] ELSE ts[j]]

\* main.py:146-147: the tasks after the loop has awaited those before index n;
\* `await t` reads the result of a task and leaves it in the task.
Awaited(ts, n) == ts

\* CanResume that is woken by results only: a task that raised wakes nobody.
CanResume_OnlyReturned(ts, n) == IF n > Len(ts) THEN TRUE ELSE ts[n].state = "returned"

\* Whether the loop at main.py:146 can go on: nothing left to await, or the
\* awaited task is finished.
CanResume(ts, n) == IF n > Len(ts) THEN TRUE ELSE Finished(ts[n])

\* main.py:146-156: the main coroutine is resumed by the awaited task finishing.
RunResume ==
    /\ rpc = "awaiting"
    /\ CanResume(tasks, t_idx)
    /\ LET c == Collect(tasks, t_idx, data)
       IN  /\ t_idx' = c.idx
           /\ data' = c.data
           /\ tasks' = Awaited(tasks, c.idx)
           /\ IF c.failed
              THEN \* the exception leaves the async-with scope and run()
                   /\ rpc' = "raised"
                   /\ run_exc' = tasks[c.idx].exc
                   /\ channel' = "closed"
                   /\ exit_code' = ExitWith(1)
                   /\ exit_cause' = "error"
                   /\ UNCHANGED out_file
              ELSE IF c.idx > Len(tasks)
              THEN \* main.py:149-156
                   /\ rpc' = "done"
                   /\ channel' = "closed"
                   /\ out_file' = WrittenFile(c.data)
                   /\ exit_code' = ExitWith(0)
                   /\ exit_cause' = "ok"
                   /\ UNCHANGED run_exc
              ELSE UNCHANGED << rpc, run_exc, channel, exit_code, exit_cause, out_file >>
    /\ UNCHANGED << accounts, custom_include_expr, custom_exclude_expr, requests,
                    stub_config, kwargs, request, processor_load,
                    entry, impl, period_start, period_end, max_tasks_arg,
                    block_processor, console_handler, max_tasks, split,
                    token_requested, main_ret, done_order >>

----------------------------------------------------------------------------
(* Entry points: main.py:158-238 and pyfirehose/__main__.py:45-143 *)

\* What importing and inspecting the selected block processor can give.
ProcessorLoads ==
    [found : BOOLEAN, annotated : {"none", "partial", "full"},
     compatible : BOOLEAN, check : BOOLEAN]

\* main.py:210-222, __main__.py:104-123: the load raises when the module or the
\* function is missing, or when the checked signature is fully annotated and
\* incompatible.
LoadRaises(l) == ~l.found \/ (l.check /\ l.annotated = "full" /\ ~l.compatible)

\* No import is left to do: the processor is loaded, or run() was called with
\* a processor object.
NoLoad == [found |-> TRUE, annotated |-> "none", compatible |-> TRUE, check |-> FALSE]

\* main.py:175-238 up to asyncio.run(run(...))
MainEntry ==
    /\ entry = "main_cli"
    /\ rpc = "init"
    /\ IF period_end < period_start
       THEN \* main.py:176-177, argparse's error() exits with status 2
            /\ rpc' = "exited"
            /\ exit_code' = 2
            /\ exit_cause' = "range"
            /\ UNCHANGED processor_load
       ELSE IF LoadRaises(processor_load)
       THEN \* main.py:224-225
            /\ rpc' = "exited"
            /\ exit_code' = 1
            /\ exit_cause' = "load"
            /\ UNCHANGED processor_load
       ELSE /\ rpc' = "run"
            /\ processor_load' = NoLoad
            /\ UNCHANGED << exit_code, exit_cause >>
    /\ UNCHANGED << accounts, custom_include_expr, custom_exclude_expr, requests,
                    stub_config, kwargs, request,
                    entry, impl, period_start, period_end, max_tasks_arg,
                    block_processor, console_handler, max_tasks, split, channel,
                    token_requested, tasks, t_idx, data, out_file, run_exc, main_ret,
                    done_order >>

\* __main__.py:45-143: the token is requested when the module is loaded; main()
\* is called with its return value dropped (__main__.py:143).
PyfirehoseMain ==
    /\ entry = "pyfirehose_cli"
    /\ rpc = "init"
    /\ token_requested' = TRUE
    /\ \E jwt_ok \in BOOLEAN :
          IF ~jwt_ok \/ period_end < period_start
          THEN \* __main__.py:51-52, 59-61
               /\ rpc' = "exited"
               /\ main_ret' = 1
               /\ exit_code' = 0
               /\ exit_cause' = IF ~jwt_ok THEN "auth" ELSE "range"
               /\ UNCHANGED processor_load
          ELSE IF LoadRaises(processor_load)
          THEN \* __main__.py:124-126, the exception is raised again
               /\ rpc' = "exited"
               /\ exit_code' = 1
               /\ exit_cause' = "load"
               /\ UNCHANGED << main_ret, processor_load >>
          ELSE \* __main__.py:128-140, the extractor takes over
               /\ rpc' = "asyncio_main"
               /\ processor_load' = NoLoad
               /\ UNCHANGED << main_ret, exit_code, exit_cause >>
    /\ UNCHANGED << accounts, custom_include_expr, custom_exclude_expr, requests,
                    stub_config, kwargs, request,
                    entry, impl, period_start, period_end, max_tasks_arg,
                    block_processor, console_handler, max_tasks, split, channel,
                    tasks, t_idx, data, out_file, run_exc, done_order >>

----------------------------------------------------------------------------
(* Specification of the whole program, main.py *)

Entries == {"main_cli", "pyfirehose_cli", "direct"}

Init ==
    /\ entry \in Entries
    /\ impl = "nested"
    /\ period_start \in 0..MaxStart
    /\ period_end \in Blocks
    /\ max_tasks_arg \in TaskArgs
    /\ block_processor \in BlockProcessors
    /\ console_handler \in (IF entry = "direct" THEN BOOLEAN ELSE {TRUE})
    /\ rpc = IF entry = "direct" THEN "run" ELSE "init"
    /\ max_tasks = max_tasks_arg
    /\ split = 0
    /\ channel = "none"
    /\ token_requested = FALSE
    /\ tasks = << >>
    /\ t_idx = 1
    /\ data = << >>
    /\ out_file = NoFile
    /\ run_exc = NoExc
    /\ main_ret = NoCode
    /\ done_order = << >>
    /\ exit_code = NoCode
    /\ exit_cause = "none"
    /\ processor_load \in (IF entry = "direct" THEN {NoLoad} ELSE ProcessorLoads)
    /\ stub_config = NoParameters
    /\ kwargs = NoParameters
    /\ request = NoParameters
    /\ accounts = {"eosio.token"}
    /\ custom_include_expr = None
    /\ custom_exclude_expr = None
    /\ requests = << >>

Next ==
    \/ MainEntry
    \/ PyfirehoseMain
    \/ RunStart
    \/ RunResume
    \/ \E i \in DOMAIN tasks : ReceiveBlock(i)
    \/ \E i \in DOMAIN tasks : EndOfStream(i)
    \/ \E i \in DOMAIN tasks : RpcError(i)
    \/ \E i \in DOMAIN tasks : Cancelled(i)

Spec == Init /\ [][Next]_vars

\* The program under the scheduling of asyncio: the event loop runs every
\* coroutine that is ready (the entry, run() when the task it awaits is done,
\* a task cancelled on the closed channel), and every stream goes on until it
\* ends, by its last item or by an RPC error.
SpecLive ==
    /\ Spec
    /\ WF_vars(MainEntry)
    /\ WF_vars(RunStart)
    /\ WF_vars(RunResume)
    /\ \A i \in 1..MaxTasksArg :
          /\ WF_vars(ReceiveBlock(i) \/ EndOfStream(i) \/ RpcError(i))
          /\ WF_vars(Cancelled(i))

----------------------------------------------------------------------------
(* Specification of run() over the filter arguments: short runs with every *)
(* combination of custom_include_expr and custom_exclude_expr.             *)

MaxFilterBlock == 2

\* None when the flag is absent (or the argument left out), '' for the flag
\* given without a value (main.py:170-171, const=''), or a string.
FilterArgs == {None, Str(""), Str("action == \"buy\"")}

AccountSets == {{"eosio.token"}, {"eosio.token", "eosio"}}

InitFilters ==
    /\ entry \in {"main_cli", "direct"}
    /\ impl = "nested"
    /\ period_start = 0
    /\ period_end \in 0..MaxFilterBlock
    /\ max_tasks_arg \in 1..MaxFilterBlock
    /\ block_processor = "one"
    /\ console_handler = TRUE
    /\ rpc = IF entry = "direct" THEN "run" ELSE "init"
    /\ max_tasks = max_tasks_arg
    /\ split = 0
    /\ channel = "none"
    /\ token_requested = FALSE
    /\ tasks = << >>
    /\ t_idx = 1
    /\ data = << >>
    /\ out_file = NoFile
    /\ run_exc = NoExc
    /\ main_ret = NoCode
    /\ done_order = << >>
    /\ exit_code = NoCode
    /\ exit_cause = "none"
    /\ processor_load = NoLoad
    /\ stub_config = NoParameters
    /\ kwargs = NoParameters
    /\ request = NoParameters
    /\ accounts \in AccountSets
    /\ custom_include_expr \in FilterArgs
    /\ custom_exclude_expr \in FilterArgs
    /\ requests = << >>

NextFilters ==
    \/ MainEntry
    \/ RunStart
    \/ RunResume
    \/ \E i \in DOMAIN tasks : ReceiveBlock(i)
    \/ \E i \in DOMAIN tasks : EndOfStream(i)
    \/ \E i \in DOMAIN tasks : RpcError(i)
    \/ \E i \in DOMAIN tasks : Cancelled(i)

SpecFilters == InitFilters /\ [][NextFilters]_vars

----------------------------------------------------------------------------
(* Specification of common.py's stream_blocks: concurrent calls on one     *)
(* open channel, each with its own range, made by a caller of the library. *)

\* the concurrent calls
StreamCalls == {1, 2}

StreamRanges == { r \in (0..MaxStart) \X Blocks : r[1] <= r[2] }

InitStream ==
    /\ entry = "library"
    /\ impl = "common"
    /\ period_start = 0
    /\ period_end = 0
    /\ max_tasks_arg = 0
    /\ block_processor \in BlockProcessors \cup {"none"}
    /\ console_handler = TRUE
    /\ rpc = "library"
    /\ max_tasks = 0
    /\ split = 0
    /\ channel = "open"
    /\ token_requested = TRUE
    /\ \E rs \in [StreamCalls -> StreamRanges] :
          tasks = [k \in StreamCalls |-> NewTask(rs[k][1], rs[k][2])]
    /\ t_idx = 1
    /\ data = << >>
    /\ out_file = NoFile
    /\ run_exc = NoExc
    /\ main_ret = NoCode
    /\ done_order = << >>
    /\ exit_code = NoCode
    /\ exit_cause = "none"
    /\ processor_load = NoLoad
    /\ stub_config = NoParameters
    /\ kwargs = NoParameters
    /\ request = NoParameters
    /\ accounts = {}
    /\ custom_include_expr = None
    /\ custom_exclude_expr = None
    /\ requests = << >>

\* common.py:20-43: the caller leaves the `async with get_secure_channel()`
\* block (an exception, a cancellation, or its end) while calls may be pending.
\* The generator is resumed after its yield, where nothing follows: the
\* channel it created is not closed.
LeaveChannelScope ==
    /\ entry = "library"
    /\ rpc = "library"
    /\ tasks # << >>
    /\ rpc' = "left_scope"
    /\ UNCHANGED << accounts, custom_include_expr, custom_exclude_expr, requests,
                    channel, tasks, done_order, stub_config, kwargs, request,
                    processor_load, exit_cause, entry, impl, period_start, period_end,
                    max_tasks_arg, block_processor, console_handler, max_tasks, split,
                    token_requested, t_idx, data, out_file, run_exc, main_ret,
                    exit_code >>

NextStream ==
    \/ \E i \in DOMAIN tasks : ReceiveBlock(i)
    \/ \E i \in DOMAIN tasks : EndOfStream(i)
    \/ \E i \in DOMAIN tasks : RpcError(i)
    \/ LeaveChannelScope

SpecStream == InitStream /\ [][NextStream]_vars

----------------------------------------------------------------------------
(* Specification of the request of one stream_blocks call of common.py *)

\* what a stub config or the keyword arguments may hold
ConfigParameters == [ParameterKeys -> {Absent, ConfigValue}]
KwargParameters == [ParameterKeys -> {Absent, KwargValue}]

\* period_start and period_end stand for the start and end the caller passes.
InitRequest ==
    /\ entry = "library"
    /\ impl = "common"
    /\ \E r \in StreamRanges :
          /\ period_start = r[1]
          /\ period_end = r[2]
    /\ max_tasks_arg = 0
    /\ block_processor = "none"
    /\ console_handler = TRUE
    /\ rpc = "library"
    /\ max_tasks = 0
    /\ split = 0
    /\ channel = "open"
    /\ token_requested = TRUE
    /\ tasks = << >>
    /\ t_idx = 1
    /\ data = << >>
    /\ out_file = NoFile
    /\ run_exc = NoExc
    /\ main_ret = NoCode
    /\ done_order = << >>
    /\ exit_code = NoCode
    /\ exit_cause = "none"
    /\ processor_load = NoLoad
    /\ stub_config \in ConfigParameters
    /\ kwargs \in KwargParameters
    /\ request = NoParameters
    /\ accounts = {}
    /\ custom_include_expr = None
    /\ custom_exclude_expr = None
    /\ requests = << >>

\* common.py:93-113: stream_blocks(start, end, secure_channel, **kwargs) up to
\* the call of stub.Blocks with the request built from request_parameters.
StreamBlocksCall ==
    /\ entry = "library"
    /\ tasks = << >>
    /\ tasks' = << NewTask(period_start, period_end) >>
    /\ request' = RequestParameters(period_start, period_end, stub_config, kwargs)
    /\ UNCHANGED << accounts, custom_include_expr, custom_exclude_expr, requests,
                    rpc, channel, done_order, stub_config, kwargs,
                    processor_load, exit_cause, entry, impl, period_start, period_end,
                    max_tasks_arg, block_processor, console_handler, max_tasks, split,
                    token_requested, t_idx, data, out_file, run_exc, main_ret,
                    exit_code >>

NextRequest == StreamBlocksCall

SpecRequest == InitRequest /\ [][NextRequest]_vars

----------------------------------------------------------------------------
(* Properties of the range splitter *)

\* the block numbers of the sub-range [start, end) of task w
BlocksOf(w) == w.start..(w.end - 1)

Contiguous(ts) == \A i \in 1..(Len(ts) - 1) : ts[i].end = ts[i + 1].start

NonOverlapping(ts) ==
    \A i, j \in DOMAIN ts : i # j => BlocksOf(ts[i]) \cap BlocksOf(ts[j]) = {}

Covers(ts, ps, pe) == UNION { BlocksOf(ts[i]) : i \in DOMAIN ts } = ps..(pe - 1)

\* run() got past the splitter and handed the sub-ranges to the tasks
Spawned == channel # "none"

block_diff == period_end - period_start

\* C1: for period_start <= period_end (equality included) and max_tasks >= 1
\* the splitter completes, and the sub-ranges handed to the workers are
\* contiguous, pairwise non-overlapping and cover exactly
\* [period_start, period_end).
C1_SplitIsPartition ==
    (period_start <= period_end /\ max_tasks_arg >= 1) =>
        /\ run_exc.type # "ZeroDivisionError"
        /\ Spawned => /\ Contiguous(tasks)
                      /\ NonOverlapping(tasks)
                      /\ Covers(tasks, period_start, period_end)

\* C2: the number of sub-ranges, and so of workers spawned, is
\* min(max_tasks, period_end - period_start) (whenever that is a count, i.e.
\* not negative): period_end - period_start when max_tasks is larger, and
\* never more than max_tasks.  Stated of the states after the splitter: the tasks are
\* spawned, or the split was abandoned on the division.
C2_TaskCount ==
    ((Spawned \/ run_exc.type = "ZeroDivisionError")
        /\ Min(max_tasks_arg, block_diff) >= 0) =>
        /\ Len(tasks) = Min(max_tasks_arg, block_diff)
        /\ (max_tasks_arg > block_diff => Len(tasks) = block_diff)
        /\ Len(tasks) <= max_tasks_arg

\* C2 witness: more tasks asked for than there are blocks, and one worker per
\* block was spawned.
C2_Witness ==
    /\ Spawned
    /\ max_tasks_arg > block_diff
    /\ block_diff >= 2
    /\ Len(tasks) = block_diff

\* C3: for period_start <= period_end and any integer max_tasks, no sub-range
\* passed to a worker has zero or negative width, and the chunk size is
\* computed without a division by zero.
C3_NoEmptySubRange ==
    period_start <= period_end =>
        /\ run_exc.type # "ZeroDivisionError"
        /\ \A i \in DOMAIN tasks : tasks[i].start < tasks[i].end

\* C4: with n the clamped task count and chunk = floor(block_diff / n),
\* sub-range i (0 <= i < n-1) is [period_start + i*chunk,
\* period_start + (i+1)*chunk) and the last one is
\* [period_start + (n-1)*chunk, period_end); every non-last sub-range has width
\* chunk, the last has width chunk + (block_diff mod n).
C4_SubRangeBounds ==
    (Spawned /\ tasks # << >>) =>
        LET n == Min(max_tasks_arg, block_diff)
            chunk == block_diff \div n
        IN  /\ Len(tasks) = n
            /\ \A i \in 0..(n - 2) :
                  /\ tasks[i + 1].start = period_start + i * chunk
                  /\ tasks[i + 1].end = period_start + (i + 1) * chunk
                  /\ tasks[i + 1].end - tasks[i + 1].start = chunk
            /\ tasks[n].start = period_start + (n - 1) * chunk
            /\ tasks[n].end = period_end
            /\ tasks[n].end - tasks[n].start = chunk + (block_diff % n)

\* C4 witness: several workers were spawned and the division left a remainder.
C4_Witness ==
    /\ Spawned
    /\ Len(tasks) >= 2
    /\ block_diff % Len(tasks) # 0

\* C5: whenever period_end < period_start the split fails: no sub-range is
\* produced, no worker is spawned, no channel is opened and no output is
\* written, from the command line and for a direct call of run() alike.
C5_InvalidRangeRejected ==
    period_end < period_start =>
        /\ tasks = << >>
        /\ channel = "none"
        /\ ~out_file.written
        /\ rpc # "done"

----------------------------------------------------------------------------
(* Properties of the stream worker *)

\* the server has so far sent exactly the blocks start, start+1, ... in order
ConsecutiveFromStart(w) ==
    \A k \in 1..Len(w.received) : w.received[k] = w.start + (k - 1)

\* the server sent exactly the blocks start .. end-1, in order
ExactDelivery(w) ==
    /\ ConsecutiveFromStart(w)
    /\ Len(w.received) = Max(w.end - w.start, 0)

Range(seq) == { seq[k] : k \in DOMAIN seq }

\* the worker failed on an RPC error (and not in the block processor)
FailedOnRpc(w) == w.state = "raised" /\ w.exc.type # "ProcessorError"

\* C6: a worker of common.py streaming [start, end) that gets an RPC error
\* after k received blocks stops consuming the stream, returns no data and
\* raises BlockStreamException(start, end, start + k); when the server sent
\* consecutive blocks from start, start + k is the first block not yet
\* received.  With and without a block processor.
C6_StreamFailureLocation ==
    /\ [](\A i \in DOMAIN tasks :
            FailedOnRpc(tasks[i]) =>
                /\ tasks[i].exc = Exc("BlockStreamException", tasks[i].start, tasks[i].end,
                                      tasks[i].start + Len(tasks[i].received))
                /\ Returned(tasks[i]) = << >>
                /\ ConsecutiveFromStart(tasks[i]) =>
                      /\ tasks[i].exc.block \notin Range(tasks[i].received)
                      /\ \A b \in tasks[i].start..(tasks[i].exc.block - 1) :
                            b \in Range(tasks[i].received))
    /\ [][\A i \in DOMAIN tasks :
            /\ RpcError(i) => FailedOnRpc(tasks'[i])
            /\ tasks[i].state = "raised" => tasks'[i] = tasks[i]]_vars

\* C6 witness: a call with a block processor has failed on an RPC error after
\* having received two blocks, and a call has failed before its first block.
C6_Witness ==
    /\ block_processor # "none"
    /\ \E i \in DOMAIN tasks :
          /\ FailedOnRpc(tasks[i])
          /\ Len(tasks[i].received) >= 2
    /\ \E i \in DOMAIN tasks :
          /\ FailedOnRpc(tasks[i])
          /\ tasks[i].received = << >>

----------------------------------------------------------------------------
(* Properties of the run: workers and aggregation *)

\* where block b was handed to the block processor: (task, position) pairs
ProcessedAt(b) ==
    UNION { { << i, k >> : k \in { k \in DOMAIN tasks[i].processed :
                                      tasks[i].processed[k] = b } } :
            i \in DOMAIN tasks }

\* C7: in a run (with a task count max_tasks >= 1) where every stream succeeds
\* and the server sends each call exactly the blocks start_block_num ..
\* stop_block_num-1, every block of [period_start, period_end) is passed to the
\* block processor exactly once over the whole run, by one worker, never by
\* two and never by none, whatever the interleaving of the workers.
C7_EachBlockOnce ==
    (Spawned /\ max_tasks_arg >= 1
        /\ \A i \in DOMAIN tasks : ConsecutiveFromStart(tasks[i])) =>
        /\ \A b \in Blocks : Cardinality(ProcessedAt(b)) <= 1
        /\ (rpc = "done" /\ \A i \in DOMAIN tasks : ExactDelivery(tasks[i])) =>
              \A b \in Blocks :
                 Cardinality(ProcessedAt(b)) =
                    IF period_start <= b /\ b < period_end THEN 1 ELSE 0

\* C7 witness: a run of several workers over at least three blocks has
\* succeeded with every stream delivered exactly, the last worker finishing
\* first.
C7_Witness ==
    /\ rpc = "done"
    /\ Len(tasks) >= 2
    /\ block_diff >= 3
    /\ \A i \in DOMAIN tasks : ExactDelivery(tasks[i])
    /\ done_order[1] = Len(tasks)

\* C8: fan-in barrier: the aggregation (merging a worker's result into data, or
\* surfacing a worker's failure) does not begin while any worker is still
\* running.
C8_FanInBarrier ==
    (Spawned /\ (t_idx > 1 \/ rpc \in {"done", "raised"})) =>
        \A i \in DOMAIN tasks : Finished(tasks[i])

\* C8 as amended: the result of worker i is merged, or its failure surfaced,
\* only after workers 0..i have all finished, workers 0..i-1 with a result;
\* workers of higher index may still be running then.  The output is written
\* only after every worker has returned.
C8_OrderedFanIn ==
    Spawned =>
        /\ \A i \in 1..(t_idx - 1) : i \in DOMAIN tasks /\ tasks[i].state = "returned"
        /\ rpc = "raised" => t_idx \in DOMAIN tasks /\ tasks[t_idx].state = "raised"
        /\ (rpc = "done" \/ out_file.written) =>
              \A i \in DOMAIN tasks : tasks[i].state = "returned"

\* C8 witness: the first worker's result has been merged while a later worker
\* is still streaming.
C8_Witness ==
    /\ rpc = "awaiting"
    /\ t_idx > 1
    /\ data # << >>
    /\ \E i \in DOMAIN tasks : tasks[i].state = "streaming"

\* the records the processor p yields over the blocks bs, in order
RECURSIVE RecordsOf(_, _)
RecordsOf(p, bs) ==
    IF bs = << >> THEN << >>
    ELSE ProcessorOutput(p, Head(bs)).records \o RecordsOf(p, Tail(bs))

\* the record lists of tasks 1..n, one after the other
RECURSIVE ConcatData(_, _)
ConcatData(ts, n) == IF n = 0 THEN << >> ELSE ConcatData(ts, n - 1) \o ts[n].data

\* C9: when all workers succeed, the aggregated data is the concatenation of
\* the workers' record lists in worker-index order, whatever the order in
\* which the workers finished or their deliveries interleaved; inside a
\* worker's segment the records are in the order the blocks were delivered
\* and, for one block, in the order the processor yielded them.
C9_IndexOrderConcat ==
    Spawned =>
        /\ data = ConcatData(tasks, t_idx - 1)
        /\ \A i \in DOMAIN tasks :
              tasks[i].data = RecordsOf(block_processor, tasks[i].received)
        /\ rpc = "done" =>
              /\ out_file = WrittenFile(ConcatData(tasks, Len(tasks)))
              /\ data = out_file.lines

\* C9 witness: a run of several workers has succeeded, each worker with two
\* blocks of two records, and the first worker was not the first to finish.
C9_Witness ==
    /\ rpc = "done"
    /\ Len(tasks) >= 2
    /\ block_processor = "two"
    /\ \A i \in DOMAIN tasks : Len(tasks[i].received) >= 2
    /\ done_order[1] # 1

FailedTasks == { i \in DOMAIN tasks : tasks[i].state = "raised" }

FirstFailed == CHOOSE f \in FailedTasks : \A g \in FailedTasks : f <= g

\* C10: if at least one worker fails, the run ends in a failure and never in a
\* record set: exactly one failure reaches the caller, the one of the failed
\* worker of lowest index, and no record of any worker, finished before or
\* after the failure, is written to the output.  A run never yields both
\* records and a failure.
C10_FirstFailureOnly ==
    Spawned =>
        /\ FailedTasks # {} => rpc # "done" /\ out_file = NoFile
        /\ rpc = "raised" =>
              /\ FailedTasks # {}
              /\ run_exc = tasks[FirstFailed].exc
              /\ out_file = NoFile
        /\ rpc = "done" => run_exc = NoExc
        /\ ~(out_file.written /\ run_exc # NoExc)

\* C10 witness: the second of three workers has failed and its failure has
\* reached the caller, while the first and the third had returned records.
C10_Witness ==
    /\ rpc = "raised"
    /\ Len(tasks) = 3
    /\ FirstFailed = 2
    /\ tasks[1].state = "returned" /\ tasks[1].data # << >>
    /\ tasks[3].state = "returned" /\ tasks[3].data # << >>
    /\ done_order = << 3, 1, 2 >>

----------------------------------------------------------------------------
(* Properties of the records produced *)

\* C11: with a block processor yielding exactly one record per block and a
\* stream delivering the W = end - start blocks of [start, end) without error,
\* the worker returns exactly W records and its block counter equals end on
\* that return.
C11_OneRecordPerBlock ==
    \A i \in DOMAIN tasks :
        (block_processor = "one"
            /\ tasks[i].state = "returned"
            /\ Len(tasks[i].received) = tasks[i].end - tasks[i].start) =>
            /\ Len(Returned(tasks[i])) = tasks[i].end - tasks[i].start
            /\ tasks[i].current_block_number = tasks[i].end

\* C11 witness: a call over three blocks or more has returned after receiving
\* all of them, with the one-record processor.
C11_Witness ==
    /\ block_processor = "one"
    /\ \E i \in DOMAIN tasks :
          /\ tasks[i].state = "returned"
          /\ tasks[i].end - tasks[i].start >= 3
          /\ Len(tasks[i].received) = tasks[i].end - tasks[i].start

\* the blocks delivered to any worker of the run
Delivered == UNION { Range(tasks[i].received) : i \in DOMAIN tasks }

\* C12: with a block processor yielding one record for a block satisfying a
\* predicate and none otherwise, the output of a fully successful run holds a
\* record for exactly the matching delivered blocks, one each, and nothing
\* else; its record count never exceeds the number of blocks of
\* [period_start, period_end), for every task count and interleaving.
C12_OnlyMatchingRecords ==
    (block_processor = "matching" /\ rpc = "done") =>
        /\ Range(out_file.lines) = { Record(b, 1) : b \in { d \in Delivered : Matches(d) } }
        /\ Len(out_file.lines) = Cardinality({ d \in Delivered : Matches(d) })
        /\ Len(out_file.lines) <= Cardinality(period_start..(period_end - 1))

\* C12 witness: a successful run of several workers in which matching and
\* non-matching blocks were delivered.
C12_Witness ==
    /\ block_processor = "matching"
    /\ rpc = "done"
    /\ Len(tasks) >= 2
    /\ \E d \in Delivered : Matches(d)
    /\ Cardinality({ d \in Delivered : ~Matches(d) }) >= 2
    /\ out_file.lines # << >>

\* the result of the loop of main.py:145-147 run afresh over the tasks
Aggregated == Collect(tasks, 1, << >>)

\* C13: aggregation is a function of the completed worker outcomes: run again
\* over the same outcomes it gives the result the run has produced (the same
\* records on success, the same failure otherwise), and the aggregation step
\* does not modify the outcomes it reads.
C13_AggregationRepeatable ==
    /\ [](rpc = "done" =>
            /\ ~Aggregated.failed
            /\ Aggregated.data = out_file.lines)
    /\ [](rpc = "raised" /\ Spawned =>
            /\ Aggregated.failed
            /\ tasks[Aggregated.idx].exc = run_exc
            /\ Aggregated.data = data)
    /\ [][RunResume => tasks' = tasks]_vars

\* C13 witness: a successful run whose file was built from the non-empty results
\* of three workers.
C13_Witness ==
    /\ rpc = "done"
    /\ Len(tasks) >= 3
    /\ \A i \in DOMAIN tasks : tasks[i].data # << >>
    /\ Len(out_file.lines) >= 3

----------------------------------------------------------------------------
(* Properties of one worker's loop *)

\* C18: within one worker the blocks are handled one at a time in delivery
\* order: for each received block the counter is advanced, the processor is
\* invoked on it and every record it yields is appended before the worker asks
\* the stream for the next item; a worker never awaits a block with a
\* processor call's output partly drained.
C18_OneBlockAtATime ==
    /\ [](\A i \in DOMAIN tasks :
            tasks[i].state = "streaming" =>
                /\ tasks[i].current_block_number = tasks[i].start + Len(tasks[i].received)
                /\ block_processor # "none" => tasks[i].processed = tasks[i].received
                /\ tasks[i].data = RecordsOf(block_processor, tasks[i].received))
    /\ [][\A i \in DOMAIN tasks :
            tasks'[i].received # tasks[i].received =>
                \E b \in Blocks :
                    /\ tasks'[i].received = Append(tasks[i].received, b)
                    /\ tasks'[i].current_block_number = tasks[i].current_block_number + 1
                    /\ tasks'[i].data =
                          tasks[i].data \o ProcessorOutput(block_processor, b).records]_vars

\* C18 witness: a worker waits for its third block with the two records of each
\* of the first two blocks appended.
C18_Witness ==
    /\ block_processor = "two"
    /\ \E i \in DOMAIN tasks :
          /\ tasks[i].state = "streaming"
          /\ Len(tasks[i].received) = 2
          /\ Len(tasks[i].data) = 4

\* the worker failed in the block processor
FailedInProcessor(w) == w.state = "raised" /\ FaultyBlock \in Range(w.received)

\* C19: if the block processor raises while handling a block the worker aborts
\* at that block: the error leaves the worker as it is, not converted into a
\* BlockStreamException (only RPC errors are), the worker requests no further
\* block, and the records accumulated so far are not returned.
C19_ProcessorErrorPropagates ==
    /\ [](\A i \in DOMAIN tasks :
            (block_processor = "faulty" /\ FaultyBlock \in Range(tasks[i].received)) =>
                /\ tasks[i].state = "raised"
                /\ tasks[i].exc = PlainExc("ProcessorError")
                /\ Last(tasks[i].received) = FaultyBlock
                /\ Returned(tasks[i]) = << >>)
    /\ [][\A i \in DOMAIN tasks :
            FailedInProcessor(tasks[i]) => tasks'[i] = tasks[i]]_vars

\* C19 witness: the processor raised on a worker's second block or later,
\* records of the blocks before it being accumulated, while the other worker
\* went on.
C19_Witness ==
    /\ block_processor = "faulty"
    /\ \E i \in DOMAIN tasks :
          /\ FailedInProcessor(tasks[i])
          /\ Len(tasks[i].received) >= 2
          /\ Len(tasks[i].data) >= 2
          /\ \E j \in DOMAIN tasks : j # i /\ tasks[j].state = "returned"

\* C20: worker isolation: a step of one worker changes that worker's own
\* counter and accumulator only; the state of every other worker is left as it
\* is, and the failure of one worker alters no other worker's state.
C20_WorkerIsolation ==
    [][\A i \in DOMAIN tasks :
          tasks'[i] # tasks[i] =>
              /\ \A j \in DOMAIN tasks : j # i => tasks'[j] = tasks[j]
              /\ UNCHANGED << block_processor, channel, data, out_file, run_exc >>]_vars

\* C20 witness: one worker has failed first and the other one has then returned
\* the records of the blocks it received.
C20_Witness ==
    \E i, j \in DOMAIN tasks :
        /\ i # j
        /\ tasks[i].state = "raised"
        /\ tasks[i].received # << >>
        /\ tasks[j].state = "returned"
        /\ Len(tasks[j].data) >= 2
        /\ done_order = << i, j >>

----------------------------------------------------------------------------
(* Properties of startup, shutdown and the request *)

\* the scope of the channel was left with calls made on it
Aborted == rpc \in {"raised", "left_scope"} /\ tasks # << >>

\* C14: whenever the run is cancelled or aborted (a worker failure leaving the
\* channel scope included) while workers still wait for stream items, the
\* secure channel is closed, so that every such worker is unblocked and
\* finishes.  Stated for the closing of the channel, on which the unblocking of
\* the workers rests.
C14_AbortClosesChannel ==
    Aborted => channel = "closed"

\* the processor named on the command line has a full, incompatible signature
\* and the signature check is on
IncompatibleChecked(l) ==
    l.found /\ l.check /\ l.annotated = "full" /\ ~l.compatible

CommandLine == entry \in {"main_cli", "pyfirehose_cli"}

\* C15: with signature checking on and a fully annotated, incompatible block
\* processor, startup fails with a configuration error before any network
\* activity of the process: before the auth token is requested and before a
\* channel is opened, in both entry points.
C15_IncompatibleFailsBeforeNetwork ==
    (CommandLine /\ rpc # "init" /\ IncompatibleChecked(processor_load)) =>
        /\ rpc = "exited"
        /\ exit_cause \in {"load", "range"}
        /\ ~token_requested
        /\ channel = "none"

\* C16: the exit code is 1 whenever the auth token cannot be obtained or the
\* block processor cannot be loaded, and 0 whenever the run completes
\* successfully; no load failure ends otherwise and no successful run ends
\* with a non-zero code.
C16_ExitCodes ==
    CommandLine =>
        /\ exit_cause \in {"auth", "load"} => exit_code = 1
        /\ exit_cause = "ok" => exit_code = 0

\* the request was built
Requested == tasks # << >>

\* C17: each request parameter comes from the highest-precedence source giving
\* it: the keyword arguments of the call first, the stub config last; a config
\* entry never replaces the worker's own start_block_num / stop_block_num, so
\* without keyword arguments the request carries the worker's bounds.
C17_RequestPrecedence ==
    Requested =>
        \A k \in ParameterKeys :
            request[k] =
                IF kwargs[k] # Absent THEN kwargs[k]
                ELSE IF k = "start_block_num" THEN tasks[1].start
                ELSE IF k = "stop_block_num" THEN tasks[1].end
                ELSE stub_config[k]

\* C21: every worker's request of a run carries the same include and exclude
\* expressions; whenever a custom include (resp. exclude) expression is
\* supplied, whatever its value, the empty string of the flag given without a
\* value included, that expression is the one sent; the default is sent only
\* when no override was supplied.
C21_FilterSelection ==
    \A i \in DOMAIN requests :
        /\ requests[i].include_filter_expr =
              IF custom_include_expr.given THEN Custom(custom_include_expr)
              ELSE DefaultInclude(accounts)
        /\ requests[i].exclude_filter_expr =
              IF custom_exclude_expr.given THEN Custom(custom_exclude_expr)
              ELSE DefaultExclude
        /\ \A j \in DOMAIN requests :
              /\ requests[j].include_filter_expr = requests[i].include_filter_expr
              /\ requests[j].exclude_filter_expr = requests[i].exclude_filter_expr

----------------------------------------------------------------------------
(* Termination *)

\* run() has ended: its records are written, or a failure has left it
RunEnded == rpc \in {"done", "raised", "exited"}

NoPending == \A i \in DOMAIN tasks : tasks[i].state # "streaming"

\* what the pyfirehose entry hands over to is not part of the sources
RunsToEnd == entry # "pyfirehose_cli"

\* C22 as stated: if every worker's stream eventually ends and every processor
\* call returns, the run eventually reaches a terminal state, all records
\* written or a failure surfaced to the caller, and at that terminal state no
\* worker task is still pending.
C22_Termination ==
    /\ RunsToEnd => <>RunEnded
    /\ [](RunEnded => NoPending)

\* C22, amended: the run eventually ends and, from some point on, has ended
\* with no worker pending; no worker is pending when the records are written,
\* while workers pending when a failure is surfaced are cancelled afterwards.
C22_EventuallyQuiescent ==
    /\ RunsToEnd => <>[](RunEnded /\ NoPending)
    /\ [](rpc = "done" => NoPending)

\* C22 witness: a failure has left run() and the workers that were pending
\* have been cancelled since.
C22_Witness ==
    /\ rpc = "raised"
    /\ NoPending
    /\ Len(tasks) >= 3
    /\ \E i \in DOMAIN tasks : tasks[i].state = "cancelled"
    /\ \E i \in DOMAIN tasks : tasks[i].state = "returned"

====
